---- MODULE Spec2Model ----
(***************************************************************************)
(* A model of server.py, the local network file share service: the path    *)
(* resolver (get_safe_path), the depth policy (get_folder_depth), the      *)
(* request handlers working on the shared folder, and the list of SSE      *)
(* client queues that broadcast_change fans events out to.                 *)
(*                                                                         *)
(* A Python str is modelled as a sequence of one-character strings, so     *)
(* that strip, split, normpath and startswith work on characters as they   *)
(* do in the source.  "a/b" is <<"a", "/", "b">>.                          *)
(*                                                                         *)
(* Spec runs the handlers one request at a time; SpecDepth does so for the *)
(* folder requests along a chain as deep as the depth limit; SpecRace lets *)
(* two handler threads stand between their checks and their filesystem     *)
(* call; SpecBus and SpecOrder interleave the list steps of event_stream   *)
(* and broadcast_change; SpecFault lets the filesystem calls fail;         *)
(* SpecLive schedules the loop of a stream fairly.                         *)
(***************************************************************************)
EXTENDS Integers, Sequences, FiniteSets, TLC

\* ------------------------------------------------------------------ str

SLASH == "/"

\* Python's None, a value no path equals.
None == <<"None">>

\* s.startswith(prefix)
startswith(s, prefix) ==
    /\ Len(prefix) <= Len(s)
    /\ SubSeq(s, 1, Len(prefix)) = prefix

\* s.lstrip('/'), s.rstrip('/'), s.strip('/')
RECURSIVE lstrip(_)
lstrip(s) ==
    IF s # <<>> /\ Head(s) = SLASH THEN lstrip(Tail(s)) ELSE s

RECURSIVE rstrip(_)
rstrip(s) ==
    IF s # <<>> /\ s[Len(s)] = SLASH THEN rstrip(SubSeq(s, 1, Len(s) - 1)) ELSE s

strip(s) == rstrip(lstrip(s))

\* s.find('/') as a 1-based index, 0 when there is none; s.rfind('/') likewise.
find(s) ==
    IF \E i \in 1..Len(s) : s[i] = SLASH
    THEN CHOOSE i \in 1..Len(s) : s[i] = SLASH /\ \A j \in 1..(i - 1) : s[j] # SLASH
    ELSE 0

rfind(s) ==
    IF \E i \in 1..Len(s) : s[i] = SLASH
    THEN CHOOSE i \in 1..Len(s) : s[i] = SLASH /\ \A j \in (i + 1)..Len(s) : s[j] # SLASH
    ELSE 0

\* s.split('/'): "" gives [""], "a//b" gives ["a", "", "b"].
RECURSIVE split(_)
split(s) ==
    IF find(s) = 0 THEN <<s>>
    ELSE <<SubSeq(s, 1, find(s) - 1)>> \o split(SubSeq(s, find(s) + 1, Len(s)))

\* '/'.join(parts)
RECURSIVE slashjoin(_)
slashjoin(parts) ==
    IF parts = <<>> THEN <<>>
    ELSE IF Len(parts) = 1 THEN parts[1]
    ELSE parts[1] \o <<SLASH>> \o slashjoin(Tail(parts))

\* ------------------------------------------------------------- os.path

DOT == <<".">>
DOTDOT == <<".", ".">>

\* posixpath.join(a, b)
path_join(a, b) ==
    IF b # <<>> /\ Head(b) = SLASH THEN b
    ELSE IF a = <<>> \/ a[Len(a)] = SLASH THEN a \o b
    ELSE a \o <<SLASH>> \o b

\* The loop of posixpath.normpath over the components: "" and "." are
\* dropped, ".." pops the last component (and is dropped at the root of an
\* absolute path, kept at the start of a relative one).
RECURSIVE normcomps(_, _, _)
normcomps(comps, new_comps, initial_slashes) ==
    IF comps = <<>> THEN new_comps
    ELSE LET comp == Head(comps)
             n == Len(new_comps)
         IN  IF comp = <<>> \/ comp = DOT
             THEN normcomps(Tail(comps), new_comps, initial_slashes)
             ELSE IF \/ comp # DOTDOT
                     \/ (initial_slashes = 0 /\ n = 0)
                     \/ (n > 0 /\ new_comps[n] = DOTDOT)
             THEN normcomps(Tail(comps), Append(new_comps, comp), initial_slashes)
             ELSE IF n > 0
             THEN normcomps(Tail(comps), SubSeq(new_comps, 1, n - 1), initial_slashes)
             ELSE normcomps(Tail(comps), new_comps, initial_slashes)

\* posixpath.normpath(path)
normpath(path) ==
    IF path = <<>> THEN DOT
    ELSE LET initial_slashes ==
                 IF ~startswith(path, <<SLASH>>) THEN 0
                 ELSE IF startswith(path, <<SLASH, SLASH>>)
                         /\ ~startswith(path, <<SLASH, SLASH, SLASH>>) THEN 2
                 ELSE 1
             body == slashjoin(normcomps(split(path), <<>>, initial_slashes))
             res == [i \in 1..initial_slashes |-> SLASH] \o body
         IN  IF res = <<>> THEN DOT ELSE res

\* posixpath.dirname(p), posixpath.basename(p)
dirname(p) ==
    LET head == SubSeq(p, 1, rfind(p))
    IN  IF head # <<>> /\ lstrip(head) # <<>> THEN rstrip(head) ELSE head

basename(p) == SubSeq(p, rfind(p) + 1, Len(p))

\* The non-empty components of an absolute path.
RECURSIVE nonempty(_)
nonempty(parts) ==
    IF parts = <<>> THEN <<>>
    ELSE IF Head(parts) = <<>> THEN nonempty(Tail(parts))
    ELSE <<Head(parts)>> \o nonempty(Tail(parts))

\* The length of the common prefix of two component lists.
RECURSIVE commonlen(_, _)
commonlen(a, b) ==
    IF a # <<>> /\ b # <<>> /\ Head(a) = Head(b)
    THEN 1 + commonlen(Tail(a), Tail(b))
    ELSE 0

\* posixpath.relpath(path, start) for absolute path and start.
relpath(path, start) ==
    LET start_list == nonempty(split(normpath(start)))
        path_list == nonempty(split(normpath(path)))
        i == commonlen(start_list, path_list)
        rel_list == [k \in 1..(Len(start_list) - i) |-> DOTDOT]
                    \o SubSeq(path_list, i + 1, Len(path_list))
    IN  IF rel_list = <<>> THEN DOT ELSE slashjoin(rel_list)


\* ------------------------------------------------------- configuration

\* SHARE_FOLDER = <directory of server.py>/shared_files, an absolute path:
\* here the directory "s" of the directory "/d".
SHARE_FOLDER == <<"/", "d", "/", "s">>

\* A sibling of the shared folder whose name starts with its name.
SIBLING == <<"/", "d", "/", "s", "a">>

MAX_FOLDER_DEPTH == 5

\* queue.Queue(maxsize=10)
QUEUE_MAXSIZE == 10

\* ----------------------------------------------------- path resolution

\* get_safe_path without the test of lines 49-50.
get_safe_path_unchecked(subpath) ==
    IF subpath # <<>>
    THEN normpath(path_join(SHARE_FOLDER, strip(subpath)))
    ELSE SHARE_FOLDER

\* get_safe_path(subpath), lines 39-52.
get_safe_path(subpath) ==
    LET target == IF subpath # <<>>
                  THEN normpath(path_join(SHARE_FOLDER, strip(subpath)))
                  ELSE SHARE_FOLDER
    IN  IF ~startswith(target, SHARE_FOLDER) THEN None ELSE target

get_folder_depth(subpath) ==
    IF subpath = <<>> THEN 0
    ELSE LET clean_path == strip(subpath)
         IN  IF clean_path = <<>> THEN 0 ELSE Len(split(clean_path))

\* werkzeug's secure_filename on the characters of the model: a path
\* separator becomes white space, the white-space separated words are joined
\* with "_", and leading and trailing "." and "_" are stripped.
RECURSIVE strip_dots(_)
strip_dots(s) ==
    IF s # <<>> /\ Head(s) \in {".", "_"} THEN strip_dots(Tail(s))
    ELSE IF s # <<>> /\ s[Len(s)] \in {".", "_"}
    THEN strip_dots(SubSeq(s, 1, Len(s) - 1))
    ELSE s

RECURSIVE underscorejoin(_)
underscorejoin(parts) ==
    IF parts = <<>> THEN <<>>
    ELSE IF Len(parts) = 1 THEN parts[1]
    ELSE parts[1] \o <<"_">> \o underscorejoin(Tail(parts))

secure_filename(filename) ==
    strip_dots(underscorejoin(nonempty(split(filename))))

\* ---------------------------------------------------------- filesystem
\* The disk is a function from the absolute paths that exist to what is
\* there: a directory, or a file with its content.

DirNode == [kind |-> "dir", data |-> 0]
FileNode(d) == [kind |-> "file", data |-> d]

ROOTDIR == <<"/">>

exists(f, p) == p \in DOMAIN f
isdir(f, p) == p \in DOMAIN f /\ f[p].kind = "dir"
isfile(f, p) == p \in DOMAIN f /\ f[p].kind = "file"

\* p itself and everything below it.
subtree(f, p) == {q \in DOMAIN f : q = p \/ startswith(q, p \o <<SLASH>>)}

\* The result of a system call: the disk after it and the exception raised
\* ("" when none).
Ok(f) == [fs |-> f, err |-> ""]
Raise(f, e) == [fs |-> f, err |-> e]

\* The error of a system call on a path that does not exist: ENOTDIR when a
\* component of the path is a file, ENOENT otherwise.
missing(f, p) ==
    IF \E q \in DOMAIN f : f[q].kind = "file" /\ startswith(p, q \o <<SLASH>>)
    THEN "NotADirectoryError"
    ELSE "FileNotFoundError"

\* os.mkdir(p)
mkdir(f, p) ==
    IF exists(f, p) THEN Raise(f, "FileExistsError")
    ELSE IF ~isdir(f, dirname(p)) THEN Raise(f, missing(f, p))
    ELSE Ok((p :> DirNode) @@ f)

\* os.makedirs(name): creates the missing ancestors, then the leaf.
RECURSIVE makedirs(_, _)
makedirs(f, name) ==
    LET head == dirname(name)
        up == IF head # <<>> /\ basename(name) # <<>> /\ ~exists(f, head)
              THEN makedirs(f, head)
              ELSE Ok(f)
    IN  IF up.err \notin {"", "FileExistsError"} THEN up
        ELSE mkdir(up.fs, name)

\* The disk with the subtree at src re-rooted at dst (dst's subtree replaced).
moved(f, src, dst) ==
    LET keep == DOMAIN f \ (subtree(f, src) \cup subtree(f, dst))
        new == {dst \o SubSeq(q, Len(src) + 1, Len(q)) : q \in subtree(f, src)}
    IN  [q \in keep \cup new |->
            IF q \in new THEN f[src \o SubSeq(q, Len(dst) + 1, Len(q))] ELSE f[q]]

\* os.rename(src, dst), rename(2), with its checks in the kernel's order:
\* the two parent directories, the source, a source above the target, a
\* target above the source, then the kinds.  An existing file or empty
\* directory at dst is replaced.
os_rename(f, src, dst) ==
    IF ~isdir(f, dirname(src)) THEN Raise(f, missing(f, src))
    ELSE IF ~isdir(f, dirname(dst)) THEN Raise(f, missing(f, dst))
    ELSE IF ~exists(f, src) THEN Raise(f, "FileNotFoundError")
    ELSE IF isdir(f, src) /\ startswith(dst, src \o <<SLASH>>)
    THEN Raise(f, "OSError: Invalid argument")
    ELSE IF startswith(src, dst \o <<SLASH>>)
    THEN Raise(f, "OSError: Directory not empty")
    ELSE IF src = dst THEN Ok(f)
    ELSE IF isfile(f, src) /\ isdir(f, dst) THEN Raise(f, "IsADirectoryError")
    ELSE IF isdir(f, src) /\ isfile(f, dst) THEN Raise(f, "NotADirectoryError")
    ELSE IF isdir(f, src) /\ isdir(f, dst) /\ subtree(f, dst) # {dst}
    THEN Raise(f, "OSError: Directory not empty")
    ELSE Ok(moved(f, src, dst))

\* os.remove(p)
os_remove(f, p) ==
    IF ~exists(f, p) THEN Raise(f, missing(f, p))
    ELSE IF isdir(f, p) THEN Raise(f, "IsADirectoryError")
    ELSE Ok([q \in DOMAIN f \ {p} |-> f[q]])

\* shutil.rmtree(p)
rmtree(f, p) ==
    IF ~exists(f, p) THEN Raise(f, missing(f, p))
    ELSE IF ~isdir(f, p) THEN Raise(f, "NotADirectoryError")
    ELSE Ok([q \in DOMAIN f \ subtree(f, p) |-> f[q]])

\* shutil.copytree(src, dst) followed by shutil.rmtree(src).
copytree_rmtree(f, src, dst) ==
    LET made == makedirs(f, dst)
    IN  IF made.err # "" THEN made
        ELSE Ok(moved(made.fs, src, dst))

\* shutil.copy2(src, dst) followed by os.unlink(src).
copy_unlink(f, src, dst) ==
    IF ~exists(f, src) THEN Raise(f, missing(f, src))
    ELSE IF ~isdir(f, dirname(dst)) THEN Raise(f, missing(f, dst))
    ELSE IF isdir(f, dst) THEN Raise(f, "IsADirectoryError")
    ELSE Ok(moved(f, src, dst))

\* shutil.move(src, dst): into dst when dst is a directory; os.rename, and
\* on an OSError a copy followed by the removal of the source.
shutil_move(f, src, dst) ==
    LET real_dst == IF isdir(f, dst) /\ src # dst
                    THEN path_join(dst, basename(src)) ELSE dst
        renamed == os_rename(f, src, real_dst)
    IN  IF isdir(f, dst) /\ src # dst /\ exists(f, real_dst)
        THEN Raise(f, "shutil.Error: Destination path already exists")
        ELSE IF renamed.err = "" THEN renamed
        ELSE IF isdir(f, src)
        THEN IF startswith(dst \o <<SLASH>>, src \o <<SLASH>>)
             THEN Raise(f, "shutil.Error: Cannot move a directory into itself")
             ELSE copytree_rmtree(f, src, real_dst)
        ELSE copy_unlink(f, src, real_dst)


\* ------------------------------------------------------------ handlers
\* A handler runs its checks (path resolution, existence, names, depth,
\* conflict) and either answers at once or goes on to its filesystem call.
\* plan.status = 0 means "go on": sys names the call, src and dst are its
\* arguments, events are the paths broadcast_change is called with after it.

Reject(status, error, target) ==
    [status |-> status, error |-> error, sys |-> "", src |-> <<>>, dst |-> <<>>,
     events |-> <<>>, target |-> target]

Proceed(sys, src, dst, events, target) ==
    [status |-> 0, error |-> "", sys |-> sys, src |-> src, dst |-> dst,
     events |-> events, target |-> target]

\* The outcome of a handler: the disk, the response and the events published.
Outcome(f, status, error, events) ==
    [fs |-> f, status |-> status, error |-> error, events |-> events]

\* list_files(subpath)
list_files_check(f, subpath) ==
    LET target_path == get_safe_path(subpath)
    IN  IF target_path = None THEN Reject(403, "Invalid path", None)
        ELSE IF ~exists(f, target_path) THEN Reject(404, "Path not found", target_path)
        ELSE IF ~isdir(f, target_path) THEN Reject(400, "Not a directory", target_path)
        ELSE Reject(200, "", target_path)

\* download_file(subpath)
download_file_check(f, subpath) ==
    LET target_path == get_safe_path(subpath)
    IN  IF target_path = None THEN Reject(403, "Invalid path", None)
        ELSE IF ~exists(f, target_path) THEN Reject(404, "File not found", target_path)
        ELSE IF ~isfile(f, target_path) THEN Reject(400, "Not a file", target_path)
        ELSE Reject(200, "", target_path)

\* create_folder(subpath) with the JSON body {name}: lines 289-327.
create_folder_check(f, subpath, name) ==
    LET target_path == get_safe_path(subpath)
        folder_name == secure_filename(name)
        new_folder_path == IF subpath # <<>>
                           THEN subpath \o <<SLASH>> \o folder_name
                           ELSE folder_name
        depth == get_folder_depth(new_folder_path)
        new_folder_full_path == path_join(target_path, folder_name)
    IN  IF target_path = None THEN Reject(403, "Invalid path", None)
        ELSE IF ~exists(f, target_path)
        THEN Reject(404, "Parent directory not found", target_path)
        ELSE IF ~isdir(f, target_path)
        THEN Reject(400, "Parent path is not a directory", target_path)
        ELSE IF name = None THEN Reject(400, "Folder name is required", target_path)
        ELSE IF folder_name = <<>> THEN Reject(400, "Invalid folder name", target_path)
        ELSE IF depth > MAX_FOLDER_DEPTH
        THEN Reject(400, "Maximum folder depth exceeded", target_path)
        ELSE IF exists(f, new_folder_full_path)
        THEN Reject(409, "Folder already exists", target_path)
        ELSE Proceed("makedirs", new_folder_full_path, <<>>, <<subpath>>, target_path)

\* create_folder, lines 329-340: os.makedirs, then the broadcast.
create_folder_respond(r, plan) ==
    IF r.err = "" THEN Outcome(r.fs, 200, "", plan.events)
    ELSE Outcome(r.fs, 500, r.err, <<>>)

create_folder_exec(f, plan) == create_folder_respond(makedirs(f, plan.src), plan)

\* os.path.relpath(parent_dir, SHARE_FOLDER), with '.' turned into ''.
parent_rel_path(parent_dir) ==
    IF relpath(parent_dir, SHARE_FOLDER) = DOT THEN <<>>
    ELSE relpath(parent_dir, SHARE_FOLDER)

\* rename_item(subpath) with the JSON body {new_name}: lines 347-393.
rename_item_check(f, subpath, name) ==
    LET target_path == get_safe_path(subpath)
        new_name == secure_filename(name)
        parent_dir == dirname(target_path)
        new_path == path_join(parent_dir, new_name)
        new_folder_rel_path == IF parent_rel_path(parent_dir) # <<>>
                               THEN parent_rel_path(parent_dir) \o <<SLASH>> \o new_name
                               ELSE new_name
    IN  IF target_path = None THEN Reject(403, "Invalid path", None)
        ELSE IF ~exists(f, target_path) THEN Reject(404, "Item not found", target_path)
        ELSE IF target_path = SHARE_FOLDER
        THEN Reject(403, "Cannot rename root folder", target_path)
        ELSE IF name = None THEN Reject(400, "New name is required", target_path)
        ELSE IF new_name = <<>> THEN Reject(400, "Invalid name", target_path)
        ELSE IF exists(f, new_path)
        THEN Reject(409, "An item with that name already exists", target_path)
        ELSE IF isdir(f, target_path)
                /\ get_folder_depth(new_folder_rel_path) > MAX_FOLDER_DEPTH
        THEN Reject(400, "Renaming would exceed maximum folder depth", target_path)
        ELSE Proceed("rename", target_path, new_path,
                     <<parent_rel_path(parent_dir)>>, target_path)

\* rename_item, lines 395-411: os.rename, then the broadcast.
rename_item_respond(r, plan) ==
    IF r.err = "" THEN Outcome(r.fs, 200, "", plan.events)
    ELSE IF r.err = "PermissionError" THEN Outcome(r.fs, 403, "Permission denied", <<>>)
    ELSE Outcome(r.fs, 500, r.err, <<>>)

rename_item_exec(f, plan) == rename_item_respond(os_rename(f, plan.src, plan.dst), plan)

\* os.path.dirname(subpath) if '/' in subpath else ''
event_parent(subpath) == IF find(subpath) # 0 THEN dirname(subpath) ELSE <<>>

\* move_item without the check of lines 456-458: a folder moved into itself
\* goes on to shutil.move.
move_item_check_nonest(f, subpath, dest_subpath) ==
    LET source_path == get_safe_path(subpath)
        dest_path == get_safe_path(dest_subpath)
        item_name == basename(source_path)
        new_path == path_join(dest_path, item_name)
        new_rel_path == relpath(new_path, SHARE_FOLDER)
    IN  IF source_path = None THEN Reject(403, "Invalid source path", None)
        ELSE IF ~exists(f, source_path)
        THEN Reject(404, "Source item not found", source_path)
        ELSE IF source_path = SHARE_FOLDER
        THEN Reject(403, "Cannot move root folder", source_path)
        ELSE IF dest_subpath = None
        THEN Reject(400, "Destination path is required", source_path)
        ELSE IF dest_path = None THEN Reject(403, "Invalid destination path", source_path)
        ELSE IF ~exists(f, dest_path) THEN Reject(404, "Destination not found", source_path)
        ELSE IF ~isdir(f, dest_path)
        THEN Reject(400, "Destination is not a directory", source_path)
        ELSE IF exists(f, new_path)
        THEN Reject(409, "An item with that name already exists in the destination",
                    source_path)
        ELSE IF isdir(f, source_path) /\ get_folder_depth(new_rel_path) > MAX_FOLDER_DEPTH
        THEN Reject(400, "Moving would exceed maximum folder depth", source_path)
        ELSE Proceed("move", source_path, new_path,
                     <<event_parent(subpath), dest_subpath>>, source_path)

\* move_item(subpath) with the JSON body {destination}: lines 418-466.
move_item_check(f, subpath, dest_subpath) ==
    LET source_path == get_safe_path(subpath)
        dest_path == get_safe_path(dest_subpath)
        item_name == basename(source_path)
        new_path == path_join(dest_path, item_name)
        new_rel_path == relpath(new_path, SHARE_FOLDER)
    IN  IF source_path = None THEN Reject(403, "Invalid source path", None)
        ELSE IF ~exists(f, source_path)
        THEN Reject(404, "Source item not found", source_path)
        ELSE IF source_path = SHARE_FOLDER
        THEN Reject(403, "Cannot move root folder", source_path)
        ELSE IF dest_subpath = None
        THEN Reject(400, "Destination path is required", source_path)
        ELSE IF dest_path = None THEN Reject(403, "Invalid destination path", source_path)
        ELSE IF ~exists(f, dest_path) THEN Reject(404, "Destination not found", source_path)
        ELSE IF ~isdir(f, dest_path)
        THEN Reject(400, "Destination is not a directory", source_path)
        ELSE IF exists(f, new_path)
        THEN Reject(409, "An item with that name already exists in the destination",
                    source_path)
        ELSE IF isdir(f, source_path) /\ startswith(dest_path, source_path)
        THEN Reject(400, "Cannot move a folder into itself", source_path)
        ELSE IF isdir(f, source_path) /\ get_folder_depth(new_rel_path) > MAX_FOLDER_DEPTH
        THEN Reject(400, "Moving would exceed maximum folder depth", source_path)
        ELSE Proceed("move", source_path, new_path,
                     <<event_parent(subpath), dest_subpath>>, source_path)

\* move_item, lines 468-484: shutil.move, then the two broadcasts.
move_item_respond(r, plan) ==
    IF r.err = "" THEN Outcome(r.fs, 200, "", plan.events)
    ELSE IF r.err = "PermissionError" THEN Outcome(r.fs, 403, "Permission denied", <<>>)
    ELSE Outcome(r.fs, 500, r.err, <<>>)

move_item_exec(f, plan) == move_item_respond(shutil_move(f, plan.src, plan.dst), plan)

\* delete_item without the check of lines 499-501.
delete_item_check_anywhere(f, subpath) ==
    LET target_path == get_safe_path(subpath)
    IN  IF target_path = None THEN Reject(403, "Invalid path", None)
        ELSE IF ~exists(f, target_path) THEN Reject(404, "Item not found", target_path)
        ELSE Proceed("delete", target_path, <<>>, <<event_parent(subpath)>>, target_path)

\* delete_item(subpath): lines 491-501.
delete_item_check(f, subpath) ==
    LET target_path == get_safe_path(subpath)
    IN  IF target_path = None THEN Reject(403, "Invalid path", None)
        ELSE IF ~exists(f, target_path) THEN Reject(404, "Item not found", target_path)
        ELSE IF target_path = SHARE_FOLDER
        THEN Reject(403, "Cannot delete root folder", target_path)
        ELSE Proceed("delete", target_path, <<>>, <<event_parent(subpath)>>, target_path)

\* delete_item, lines 503-522: os.remove or shutil.rmtree, then the broadcast.
delete_item_respond(f, r, plan) ==
    IF ~isfile(f, plan.src) /\ ~isdir(f, plan.src)
    THEN Outcome(f, 400, "Unknown item type", <<>>)
    ELSE IF r.err = "" THEN Outcome(r.fs, 200, "", plan.events)
    ELSE IF r.err = "PermissionError" THEN Outcome(r.fs, 403, "Permission denied", <<>>)
    ELSE Outcome(r.fs, 500, r.err, <<>>)

delete_item_exec(f, plan) ==
    delete_item_respond(f, IF isfile(f, plan.src) THEN os_remove(f, plan.src)
                           ELSE rmtree(f, plan.src), plan)


\* One file of an upload: its name, its content, and what goes wrong while
\* it is written ("none", "write": the write raises, "short": the size on
\* disk differs from the bytes written).
UploadFile(filename, data, fault) ==
    [filename |-> filename, data |-> data, fault |-> fault]

without(f, p) == [q \in DOMAIN f \ {p} |-> f[q]]

\* upload_files, the loop of lines 209-241 from file i on.  abort is the
\* exception that leaves the loop for the handler at line 259.
RECURSIVE upload_loop(_, _, _, _, _)
upload_loop(f, target_path, files, uploaded, errors) ==
    IF files = <<>>
    THEN [fs |-> f, uploaded |-> uploaded, errors |-> errors, abort |-> ""]
    ELSE LET file == Head(files)
             filename == secure_filename(file.filename)
             file_path == path_join(target_path, filename)
         IN  IF file.filename = <<>> \/ filename = <<>>
             THEN upload_loop(f, target_path, Tail(files), uploaded, errors)
             ELSE IF isdir(f, file_path)
             \* open() raises, and so does os.remove() in the except clause
             THEN [fs |-> f, uploaded |-> uploaded, errors |-> errors,
                   abort |-> "IsADirectoryError"]
             ELSE IF file.fault # "none"
             \* the file was created or truncated by open(); it is removed
             THEN upload_loop(without(f, file_path), target_path, Tail(files),
                              uploaded, Append(errors, filename))
             ELSE upload_loop((file_path :> FileNode(file.data)) @@ f, target_path,
                              Tail(files), Append(uploaded, filename), errors)

\* upload_files, lines 247-257: the result and its status.
upload_result(uploaded, errors) ==
    [success |-> Len(errors) = 0, uploaded |-> uploaded, count |-> Len(uploaded),
     errors |-> errors,
     status |-> IF errors # <<>> /\ uploaded = <<>> THEN 500 ELSE 200]

\* upload_files(subpath) with the multipart files: the whole handler.
upload_files(f, subpath, files) ==
    LET target_path == get_safe_path(subpath)
        r == upload_loop(f, target_path, files, <<>>, <<>>)
        done(status, error, g, events, uploaded, errors) ==
            [fs |-> g, status |-> status, error |-> error, events |-> events,
             uploaded |-> uploaded, errors |-> errors, target |-> target_path]
    IN  IF target_path = None THEN done(403, "Invalid path", f, <<>>, <<>>, <<>>)
        ELSE IF ~exists(f, target_path)
        THEN done(404, "Path not found", f, <<>>, <<>>, <<>>)
        ELSE IF ~isdir(f, target_path)
        THEN done(400, "Not a directory", f, <<>>, <<>>, <<>>)
        ELSE IF files = <<>> THEN done(400, "No files provided", f, <<>>, <<>>, <<>>)
        ELSE IF r.abort # "" THEN done(500, r.abort, r.fs, <<>>, <<>>, <<>>)
        ELSE done(upload_result(r.uploaded, r.errors).status, "",
                  r.fs, IF r.uploaded # <<>> THEN <<subpath>> ELSE <<>>,
                  r.uploaded, r.errors)

\* A handler with a filesystem call, run as a whole.
run(plan, out) ==
    IF plan.status # 0
    THEN [status |-> plan.status, error |-> plan.error, events |-> <<>>,
          uploaded |-> <<>>, errors |-> <<>>, target |-> plan.target]
    ELSE [status |-> out.status, error |-> out.error, events |-> out.events,
          uploaded |-> <<>>, errors |-> <<>>, target |-> plan.target]

\* --------------------------------------------------------------- inputs

A == <<"a">>
AA == <<"a", "a">>
F == <<"f">>

\* The request paths: the directories of a chain five deep, a sibling whose
\* name starts like the first one's, an uploaded file, and other spellings (a
\* leading slash, "." and ".." inside the shared folder, ".." above it, the
\* sibling of the shared folder).
Subpaths ==
    { <<>>,
      slashjoin(<<A>>), slashjoin(<<A, A>>), slashjoin(<<A, A, A>>),
      slashjoin(<<A, A, A, A>>), slashjoin(<<A, A, A, A, A>>),
      slashjoin(<<AA>>), slashjoin(<<F>>),
      slashjoin(<<<<>>, A>>),
      slashjoin(<<A, DOTDOT, AA>>),
      slashjoin(<<A, A, A, A, DOT>>),
      slashjoin(<<DOT>>), slashjoin(<<DOTDOT>>),
      slashjoin(<<DOTDOT, <<"s", "a">>>>) }

\* The destinations of a move.
Destinations ==
    { <<>>, slashjoin(<<A>>), slashjoin(<<A, A>>), slashjoin(<<A, A, A, A>>),
      slashjoin(<<AA>>), slashjoin(<<DOTDOT>>),
      slashjoin(<<DOTDOT, <<"s", "a">>>>) }

\* The target directories of an upload.
UploadDirs ==
    { <<>>, slashjoin(<<A>>), slashjoin(<<F>>), slashjoin(<<A, DOTDOT, AA>>),
      slashjoin(<<DOTDOT>>), slashjoin(<<DOTDOT, <<"s", "a">>>>) }

\* The names of a new folder and the new names of a rename.
Names == {A, AA, DOTDOT}

\* The files of an upload: one written whole, one whose write raises, one
\* named like a folder, one whose size on disk comes out short.
MaxBatch == 2
MaxEntries == 3

UploadFiles ==
    { UploadFile(F, 1, "none"), UploadFile(F, 2, "write"),
      UploadFile(A, 2, "none"), UploadFile(A, 1, "short") }

Batches == UNION {[1..k -> UploadFiles] : k \in 0..MaxBatch}

\* ---------------------------------------------------------------- state

VARIABLES
    fs,             \* the disk
    last,           \* the request being answered and its response; op = "" when idle
    req,            \* the requests of the handler threads that run side by side
    client_queues,  \* the list of line 27, each queue named by its stream
    queues,         \* the messages waiting in each stream's queue
    streams,        \* where each event_stream generator stands, and what it sent
    workers,        \* where each thread inside broadcast_change stands
    calls           \* the numbered calls of broadcast_change, for telling order

busvars == <<client_queues, queues, streams, workers, calls>>
vars == <<fs, last, req, client_queues, queues, streams, workers, calls>>

NoRequest ==
    [op |-> "", subpath |-> <<>>, arg |-> <<>>, status |-> 0, error |-> "",
     events |-> <<>>, uploaded |-> <<>>, errors |-> <<>>, target |-> None,
     fault |-> "none"]

Answer(op, subpath, arg, r) ==
    [op |-> op, subpath |-> subpath, arg |-> arg, status |-> r.status,
     error |-> r.error, events |-> r.events, uploaded |-> r.uploaded,
     errors |-> r.errors, target |-> r.target, fault |-> "none"]

\* The entries below the shared folder.
inside(f) == {q \in DOMAIN f : startswith(q, SHARE_FOLDER \o <<SLASH>>)}

\* os.makedirs(SHARE_FOLDER, exist_ok=True) at start-up: the shared folder
\* exists and is empty; a sibling directory may or may not exist beside it.
InitDisk(sibling) ==
    LET base == (ROOTDIR :> DirNode) @@ (<<"/", "d">> :> DirNode)
                @@ (SHARE_FOLDER :> DirNode)
    IN  IF sibling THEN (SIBLING :> DirNode) @@ base ELSE base

\* The handler threads and, on the event side, the streams and the threads
\* that call broadcast_change.
NumThreads == 2
NumStreams == 2
NumPublishers == 2
NumBusPublishers == 1

Threads == 1..NumThreads
Streams == 1..NumStreams
Publishers == 1..(IF NumPublishers > NumBusPublishers THEN NumPublishers
                  ELSE NumBusPublishers)

NoThread ==
    [pc |-> "idle", op |-> "", subpath |-> <<>>, arg |-> <<>>,
     plan |-> Reject(0, "", None), status |-> 0, error |-> "", raced |-> FALSE]

\* idle: the last thing the stream sent its client was a keep-alive.
NoStream == [pc |-> "new", sent |-> <<>>, err |-> "", idle |-> FALSE]

NoWorker ==
    [pc |-> "idle", message |-> [path |-> <<>>, n |-> 0], i |-> 0, dead |-> <<>>,
     j |-> 0, err |-> "", present |-> {}, got |-> <<>>]

\* client_queues = [] at line 27; no request has come yet.
InitBus ==
    /\ client_queues = <<>>
    /\ queues = [s \in Streams |-> <<>>]
    /\ streams = [s \in Streams |-> NoStream]
    /\ workers = [w \in Publishers |-> NoWorker]
    /\ calls = <<>>

Init ==
    /\ \E sibling \in BOOLEAN : fs = InitDisk(sibling)
    /\ last = NoRequest
    /\ req = [t \in Threads |-> NoThread]
    /\ InitBus

Idle == last.op = ""

\* The model stops adding entries at cap, the shared folder and its
\* ancestors not counted.
Fits(f, cap) == Cardinality(DOMAIN f) <= Cardinality(DOMAIN InitDisk(FALSE)) + cap

\* One action per route; each runs its handler as a whole on a request drawn
\* from the given paths (and names, destinations or files).
ListFilesOn(paths) ==
    /\ Idle
    /\ \E subpath \in paths :
          last' = Answer("list", subpath, <<>>,
                         run(list_files_check(fs, subpath), Outcome(fs, 0, "", <<>>)))
    /\ UNCHANGED <<fs, req, busvars>>

DownloadFileOn(paths) ==
    /\ Idle
    /\ \E subpath \in paths :
          last' = Answer("download", subpath, <<>>,
                         run(download_file_check(fs, subpath), Outcome(fs, 0, "", <<>>)))
    /\ UNCHANGED <<fs, req, busvars>>

UploadFilesOn(paths, batches, cap) ==
    /\ Idle
    /\ \E subpath \in paths, files \in batches :
          LET r == upload_files(fs, subpath, files)
          IN  /\ Fits(r.fs, cap)
              /\ fs' = r.fs
              /\ last' = Answer("upload", subpath, files, r)
    /\ UNCHANGED <<req, busvars>>

Handle(op, subpath, arg, plan, out, cap) ==
    /\ Fits(IF plan.status = 0 THEN out.fs ELSE fs, cap)
    /\ fs' = IF plan.status = 0 THEN out.fs ELSE fs
    /\ last' = Answer(op, subpath, arg, run(plan, out))
    /\ UNCHANGED <<req, busvars>>

CreateFolderOn(paths, names, cap) ==
    /\ Idle
    /\ \E subpath \in paths, name \in names :
          LET plan == create_folder_check(fs, subpath, name)
          IN  Handle("create_folder", subpath, name, plan, create_folder_exec(fs, plan), cap)

RenameItemOn(paths, names, cap) ==
    /\ Idle
    /\ \E subpath \in paths, name \in names :
          LET plan == rename_item_check(fs, subpath, name)
          IN  Handle("rename", subpath, name, plan, rename_item_exec(fs, plan), cap)

MoveItemOn(paths, dests, cap) ==
    /\ Idle
    /\ \E subpath \in paths, dest \in dests :
          LET plan == move_item_check(fs, subpath, dest)
          IN  Handle("move", subpath, dest, plan, move_item_exec(fs, plan), cap)

DeleteItemOn(paths, cap) ==
    /\ Idle
    /\ \E subpath \in paths :
          LET plan == delete_item_check(fs, subpath)
          IN  Handle("delete", subpath, <<>>, plan, delete_item_exec(fs, plan), cap)

ListFiles == ListFilesOn(Subpaths)
DownloadFile == DownloadFileOn(Subpaths)
UploadFiles_ == UploadFilesOn(UploadDirs, Batches, MaxEntries)
CreateFolder == CreateFolderOn(Subpaths, Names, MaxEntries)
RenameItem == RenameItemOn(Subpaths, Names, MaxEntries)
MoveItem == MoveItemOn(Subpaths, Destinations, MaxEntries)
DeleteItem == DeleteItemOn(Subpaths, MaxEntries)

\* The response has been sent; the next request can come.
Return ==
    /\ ~Idle
    /\ last' = NoRequest
    /\ UNCHANGED <<fs, req, busvars>>

Next ==
    \/ ListFiles
    \/ DownloadFile
    \/ UploadFiles_
    \/ CreateFolder
    \/ RenameItem
    \/ MoveItem
    \/ DeleteItem
    \/ Return

Spec == Init /\ [][Next]_vars


\* The same server asked only for folders, down a chain as deep as the depth
\* limit and one step beyond.
DeepPaths ==
    { <<>>,
      slashjoin(<<A>>), slashjoin(<<A, A>>), slashjoin(<<A, A, A>>),
      slashjoin(<<A, A, A, A>>), slashjoin(<<A, A, A, A, A>>),
      slashjoin(<<A, A, A, A, DOT>>), slashjoin(<<AA>>) }

DeepDestinations == { <<>>, slashjoin(<<A, A, A, A>>), slashjoin(<<AA>>) }

DeepNames == {A, AA}

MaxDeepEntries == 6

DeepCreateFolder == CreateFolderOn(DeepPaths, DeepNames, MaxDeepEntries)
DeepRenameItem == RenameItemOn(DeepPaths, DeepNames, MaxDeepEntries)
DeepMoveItem == MoveItemOn(DeepPaths, DeepDestinations, MaxDeepEntries)
DeepDeleteItem == DeleteItemOn(DeepPaths, MaxDeepEntries)

NextDepth ==
    \/ DeepCreateFolder
    \/ DeepRenameItem
    \/ DeepMoveItem
    \/ DeepDeleteItem
    \/ Return

SpecDepth == Init /\ [][NextDepth]_vars

\* ------------------------------------------------- handlers side by side

\* The server answers each request on a thread of its own (app.run, line
\* 535), so two handlers can stand between their checks and their filesystem
\* call at once.  A thread's request is checked in one step and carried out
\* in a later one; raced marks a request carried out while the other
\* thread's request for the same new path had passed its checks too.
RacePaths == { <<>>, slashjoin(<<A>>), slashjoin(<<AA>>), slashjoin(<<A, A>>) }
RaceDestinations == { <<>>, slashjoin(<<A>>) }
RaceNames == {A, AA}

MaxRaceEntries == 3

\* The path a request is about to create.
new_path_of(plan) == IF plan.sys = "makedirs" THEN plan.src ELSE plan.dst

exec_plan(f, plan) ==
    CASE plan.sys = "makedirs" -> create_folder_exec(f, plan)
      [] plan.sys = "rename" -> rename_item_exec(f, plan)
      [] plan.sys = "move" -> move_item_exec(f, plan)
      [] OTHER -> delete_item_exec(f, plan)

checked(op, subpath, arg, plan) ==
    [pc |-> IF plan.status = 0 THEN "checked" ELSE "done",
     op |-> op, subpath |-> subpath, arg |-> arg, plan |-> plan,
     status |-> plan.status, error |-> plan.error, raced |-> FALSE]

\* create_folder up to its last check (line 327).
RaceCreateFolder(t) ==
    /\ req[t].pc = "idle"
    /\ \E subpath \in RacePaths, name \in RaceNames :
          req' = [req EXCEPT ![t] = checked("create_folder", subpath, name,
                                            create_folder_check(fs, subpath, name))]
    /\ UNCHANGED <<fs, last, busvars>>

\* rename_item up to its last check (line 393).
RaceRenameItem(t) ==
    /\ req[t].pc = "idle"
    /\ \E subpath \in RacePaths, name \in RaceNames :
          req' = [req EXCEPT ![t] = checked("rename", subpath, name,
                                            rename_item_check(fs, subpath, name))]
    /\ UNCHANGED <<fs, last, busvars>>

\* move_item up to its last check (line 466).
RaceMoveItem(t) ==
    /\ req[t].pc = "idle"
    /\ \E subpath \in RacePaths, dest \in RaceDestinations :
          req' = [req EXCEPT ![t] = checked("move", subpath, dest,
                                            move_item_check(fs, subpath, dest))]
    /\ UNCHANGED <<fs, last, busvars>>

\* delete_item up to its last check (line 501).
RaceDeleteItem(t) ==
    /\ req[t].pc = "idle"
    /\ \E subpath \in RacePaths :
          req' = [req EXCEPT ![t] = checked("delete", subpath, <<>>,
                                            delete_item_check(fs, subpath))]
    /\ UNCHANGED <<fs, last, busvars>>

\* The other thread's request is for the same operation and the same new path,
\* and it has passed its checks or was itself carried out in a race.
Contended(t) ==
    \E u \in Threads \ {t} :
        /\ req[u].op = req[t].op
        /\ req[t].op \in {"create_folder", "rename", "move"}
        /\ req[u].plan.status = 0
        /\ new_path_of(req[u].plan) = new_path_of(req[t].plan)
        /\ \/ req[u].pc = "checked"
           \/ req[u].pc = "done" /\ req[u].raced

\* The rest of the handler: the filesystem call and the response.
RaceExec(t) ==
    /\ req[t].pc = "checked"
    /\ LET out == exec_plan(fs, req[t].plan)
       IN  /\ Fits(out.fs, MaxRaceEntries)
           /\ fs' = out.fs
           /\ req' = [req EXCEPT ![t].pc = "done", ![t].status = out.status,
                                 ![t].error = out.error, ![t].raced = Contended(t)]
    /\ UNCHANGED <<last, busvars>>

RaceReturn(t) ==
    /\ req[t].pc = "done"
    /\ req' = [req EXCEPT ![t] = NoThread]
    /\ UNCHANGED <<fs, last, busvars>>

InitRace ==
    /\ fs = InitDisk(FALSE)
    /\ last = NoRequest
    /\ req = [t \in Threads |-> NoThread]
    /\ InitBus

NextRace ==
    \E t \in Threads :
        \/ RaceCreateFolder(t)
        \/ RaceRenameItem(t)
        \/ RaceMoveItem(t)
        \/ RaceDeleteItem(t)
        \/ RaceExec(t)
        \/ RaceReturn(t)

SpecRace == InitRace /\ [][NextRace]_vars

\* ------------------------------------------------------- the event bus

\* queue.Queue(maxsize=10): put_nowait raises queue.Full on a full queue and
\* appends otherwise; get takes the oldest message.
put_nowait(q, message) ==
    IF Len(q) >= QUEUE_MAXSIZE THEN [full |-> TRUE, q |-> q]
    ELSE [full |-> FALSE, q |-> Append(q, message)]

\* A get that takes the newest message instead.
queue_get_newest(q) == [message |-> q[Len(q)], q |-> SubSeq(q, 1, Len(q) - 1)]

queue_get(q) == [message |-> Head(q), q |-> Tail(q)]

\* x in l, and l.remove(x): the first x is taken out, ValueError without one.
contains(l, x) == \E k \in 1..Len(l) : l[k] = x

list_remove(l, x) ==
    IF ~contains(l, x) THEN [list |-> l, err |-> "ValueError"]
    ELSE LET k == CHOOSE k \in 1..Len(l) : l[k] = x /\ \A h \in 1..(k - 1) : l[h] # x
         IN  [list |-> SubSeq(l, 1, k - 1) \o SubSeq(l, k + 1, Len(l)), err |-> ""]

\* The finally clause of event_stream with its remove left out.
stream_unregister_skipped(l, x) == [list |-> l, err |-> ""]

\* client_queues.remove(client_queue) in the finally clause of event_stream.
stream_unregister(l, x) == list_remove(l, x)

in_list(l) == {l[k] : k \in 1..Len(l)}

\* What the calls of broadcast_change under way can still count on: a queue
\* that has left the list, or has filled up, is no longer one that was in the
\* list with room for the whole of the call.
still_present(w, cq, qs) ==
    [v \in Publishers |->
        [w[v] EXCEPT !.present =
            {q \in w[v].present : q \in in_list(cq) /\ Len(qs[q]) < QUEUE_MAXSIZE}]]

\* event_stream, lines 97-98: the generator starts, makes its queue and
\* appends it to client_queues.
StreamOpen(s) ==
    /\ streams[s].pc = "new"
    /\ client_queues' = Append(client_queues, s)
    /\ streams' = [streams EXCEPT ![s].pc = "open"]
    /\ UNCHANGED <<fs, last, req, queues, workers, calls>>

\* Lines 105-109: a message is taken from the queue and sent to the client.
\* Only numbered messages are kept in the record of what was sent.
StreamForward(s) ==
    /\ streams[s].pc = "open"
    /\ queues[s] # <<>>
    /\ LET r == queue_get(queues[s])
       IN  /\ queues' = [queues EXCEPT ![s] = r.q]
           /\ streams' = [streams EXCEPT ![s].sent =
                             IF r.message.n = 0 THEN @ ELSE Append(@, r.message),
                                         ![s].idle = FALSE]
    /\ UNCHANGED <<fs, last, req, client_queues, workers, calls>>

\* The client is gone, or sending failed: the generator is closed at a yield
\* (lines 113-115) and enters its finally clause.
StreamDisconnect(s) ==
    /\ streams[s].pc = "open"
    /\ streams' = [streams EXCEPT ![s].pc = "finally"]
    /\ UNCHANGED <<fs, last, req, client_queues, queues, workers, calls>>

\* Line 118: if client_queue in client_queues.
StreamFinallyCheck(s) ==
    /\ streams[s].pc = "finally"
    /\ streams' = [streams EXCEPT ![s].pc =
                      IF contains(client_queues, s) THEN "remove" ELSE "done"]
    /\ UNCHANGED <<fs, last, req, client_queues, queues, workers, calls>>

\* Line 119: client_queues.remove(client_queue).
StreamFinallyRemove(s) ==
    /\ streams[s].pc = "remove"
    /\ LET r == stream_unregister(client_queues, s)
       IN  /\ client_queues' = r.list
           /\ streams' = [streams EXCEPT ![s].pc = "done", ![s].err = r.err]
           /\ workers' = still_present(workers, r.list, queues)
    /\ UNCHANGED <<fs, last, req, queues, calls>>

\* broadcast_change is entered (lines 66-71) by a handler that has changed
\* the directory at path.  n numbers the call, 0 when calls are not numbered.
entered(path, n) ==
    [pc |-> "loop", message |-> [path |-> path, n |-> n], i |-> 0, dead |-> <<>>,
     j |-> 0, err |-> "",
     present |-> {q \in in_list(client_queues) : Len(queues[q]) < QUEUE_MAXSIZE},
     got |-> <<>>]

\* The directories announced: the shared folder itself where calls are not
\* numbered, and a different one from call to call where they are.
BusPaths == { <<>> }
OrderPaths == << <<>>, slashjoin(<<A>>), slashjoin(<<AA>>) >>

MaxCalls == 3

BroadcastStart(w) ==
    /\ workers[w].pc = "idle"
    /\ \E path \in BusPaths : workers' = [workers EXCEPT ![w] = entered(path, 0)]
    /\ UNCHANGED <<fs, last, req, client_queues, queues, streams, calls>>

NumberedBroadcastStart(w) ==
    /\ workers[w].pc = "idle"
    /\ Len(calls) < MaxCalls
    /\ \E path \in {OrderPaths[(Len(calls) % Len(OrderPaths)) + 1]} :
          /\ workers' = [workers EXCEPT ![w] = entered(path, Len(calls) + 1)]
          /\ calls' = Append(calls,
                             [path |-> path, returned |-> FALSE,
                              before |-> {k \in 1..Len(calls) : calls[k].returned}])
    /\ UNCHANGED <<fs, last, req, client_queues, queues, streams>>

\* One turn of the loop of lines 72-77: the list iterator yields the queue
\* at its index, if the list is that long, and the message is put into it;
\* a full queue is noted in dead_queues.  Past the end the loop is left.
BroadcastNext(w) ==
    /\ workers[w].pc = "loop"
    /\ IF workers[w].i < Len(client_queues)
       THEN LET q == client_queues[workers[w].i + 1]
                r == put_nowait(queues[q], workers[w].message)
                qs == [queues EXCEPT ![q] = r.q]
                me == [workers[w] EXCEPT
                          !.i = @ + 1,
                          !.dead = IF r.full THEN Append(@, q) ELSE @,
                          !.got = IF r.full THEN @ ELSE Append(@, q)]
            IN  /\ queues' = qs
                /\ workers' = still_present([workers EXCEPT ![w] = me], client_queues, qs)
       ELSE /\ workers' = [workers EXCEPT ![w].pc = "remove"]
            /\ UNCHANGED queues
    /\ UNCHANGED <<fs, last, req, client_queues, streams, calls>>

returned(c, w) ==
    IF w.message.n = 0 THEN c ELSE [c EXCEPT ![w.message.n].returned = TRUE]

\* One turn of the loop of lines 80-81: the next of dead_queues is removed
\* from client_queues; a ValueError ends the call.  Past the end the call
\* returns.
BroadcastRemove(w) ==
    /\ workers[w].pc = "remove"
    /\ IF workers[w].j < Len(workers[w].dead)
       THEN LET r == list_remove(client_queues, workers[w].dead[workers[w].j + 1])
                me == IF r.err = "" THEN [workers[w] EXCEPT !.j = @ + 1]
                      ELSE [NoWorker EXCEPT !.err = r.err]
            IN  /\ client_queues' = r.list
                /\ workers' = still_present([workers EXCEPT ![w] = me], r.list, queues)
                /\ calls' = IF r.err = "" THEN calls ELSE returned(calls, workers[w])
       ELSE /\ workers' = [workers EXCEPT ![w] = NoWorker]
            /\ calls' = returned(calls, workers[w])
            /\ UNCHANGED client_queues
    /\ UNCHANGED <<fs, last, req, queues, streams>>

NextBus ==
    \/ \E s \in Streams :
          \/ StreamOpen(s)
          \/ StreamForward(s)
          \/ StreamDisconnect(s)
          \/ StreamFinallyCheck(s)
          \/ StreamFinallyRemove(s)
    \/ \E w \in 1..NumBusPublishers :
          \/ BroadcastStart(w)
          \/ BroadcastNext(w)
          \/ BroadcastRemove(w)

SpecBus == InitRace /\ [][NextBus]_vars

NextOrder ==
    \/ \E s \in Streams :
          \/ StreamOpen(s)
          \/ StreamForward(s)
          \/ StreamDisconnect(s)
          \/ StreamFinallyCheck(s)
          \/ StreamFinallyRemove(s)
    \/ \E w \in Publishers :
          \/ NumberedBroadcastStart(w)
          \/ BroadcastNext(w)
          \/ BroadcastRemove(w)

SpecOrder == InitRace /\ [][NextOrder]_vars

\* ----------------------------------------------- the stream's loop, fair

\* The except clause of lines 110-112: the keep-alive comment is sent and the
\* loop goes on.
keep_alive(st) == [st EXCEPT !.idle = TRUE]

\* Lines 108-112: get(timeout=30) has waited 30 seconds on an empty queue
\* and raises queue.Empty.
StreamKeepAlive(s) ==
    /\ streams[s].pc = "open"
    /\ queues[s] = <<>>
    /\ streams' = [streams EXCEPT ![s] = keep_alive(@)]
    /\ UNCHANGED <<fs, last, req, client_queues, queues, workers, calls>>

\* One stream and one publisher; the publisher's calls are numbered up to
\* MaxCalls and unnumbered without end, so that the queue fills up.
LiveStreams == {1}
LivePublishers == {1}

NextLive ==
    \/ \E s \in LiveStreams :
          \/ StreamOpen(s)
          \/ StreamForward(s)
          \/ StreamKeepAlive(s)
          \/ StreamDisconnect(s)
          \/ StreamFinallyCheck(s)
          \/ StreamFinallyRemove(s)
    \/ \E w \in LivePublishers :
          \/ BroadcastStart(w)
          \/ NumberedBroadcastStart(w)
          \/ BroadcastNext(w)
          \/ BroadcastRemove(w)

\* The thread that runs a stream's loop is scheduled again and again: a
\* message waiting in the queue is taken, a wait on an empty queue times out.
LiveFairness ==
    \A s \in LiveStreams :
        /\ WF_vars(StreamForward(s))
        /\ WF_vars(StreamKeepAlive(s))

SpecLive == InitRace /\ [][NextLive]_vars /\ LiveFairness

\* -------------------------------------------- failing filesystem calls

\* The filesystem call of a handler may fail for a reason the disk of the
\* model does not show: PermissionError (the process may not write there) or
\* another OSError (an I/O error, a full disk).  The call then changes nothing
\* and the handler's except clauses answer.  An upload's file may be refused
\* by open() in the same way ("denied").
Faults == {"none", "PermissionError", "OSError"}

FaultPaths ==
    { <<>>, slashjoin(<<A>>), slashjoin(<<AA>>), slashjoin(<<F>>), slashjoin(<<A, A>>) }
FaultDestinations == { <<>>, slashjoin(<<A>>) }
FaultNames == {A, AA}
FaultFiles ==
    { UploadFile(F, 1, "none"), UploadFile(F, 2, "denied"), UploadFile(A, 1, "none") }
FaultBatches == UNION {[1..k -> FaultFiles] : k \in 0..MaxBatch}

MaxFaultEntries == 3

FaultyHandle(op, subpath, arg, plan, out, fault) ==
    /\ Fits(IF plan.status = 0 THEN out.fs ELSE fs, MaxFaultEntries)
    /\ fs' = IF plan.status = 0 THEN out.fs ELSE fs
    /\ last' = [Answer(op, subpath, arg, run(plan, out)) EXCEPT
                   !.fault = IF plan.status = 0 THEN fault ELSE "none"]
    /\ UNCHANGED <<req, busvars>>

FaultyCreateFolder ==
    /\ Idle
    /\ \E subpath \in FaultPaths, name \in FaultNames, fault \in Faults :
          \E plan \in {create_folder_check(fs, subpath, name)} :
          \E out \in {IF fault = "none" THEN create_folder_exec(fs, plan)
                         ELSE create_folder_respond(Raise(fs, fault), plan)} :
             FaultyHandle("create_folder", subpath, name, plan, out, fault)

FaultyRenameItem ==
    /\ Idle
    /\ \E subpath \in FaultPaths, name \in FaultNames, fault \in Faults :
          \E plan \in {rename_item_check(fs, subpath, name)} :
          \E out \in {IF fault = "none" THEN rename_item_exec(fs, plan)
                         ELSE rename_item_respond(Raise(fs, fault), plan)} :
             FaultyHandle("rename", subpath, name, plan, out, fault)

FaultyMoveItem ==
    /\ Idle
    /\ \E subpath \in FaultPaths, dest \in FaultDestinations, fault \in Faults :
          \E plan \in {move_item_check(fs, subpath, dest)} :
          \E out \in {IF fault = "none" THEN move_item_exec(fs, plan)
                         ELSE move_item_respond(Raise(fs, fault), plan)} :
             FaultyHandle("move", subpath, dest, plan, out, fault)

FaultyDeleteItem ==
    /\ Idle
    /\ \E subpath \in FaultPaths, fault \in Faults :
          \E plan \in {delete_item_check(fs, subpath)} :
          \E out \in {IF fault = "none" THEN delete_item_exec(fs, plan)
                         ELSE delete_item_respond(fs, Raise(fs, fault), plan)} :
             FaultyHandle("delete", subpath, <<>>, plan, out, fault)

FaultyUploadFiles == UploadFilesOn({ <<>>, slashjoin(<<A>>) }, FaultBatches, MaxFaultEntries)

NextFault ==
    \/ FaultyCreateFolder
    \/ FaultyRenameItem
    \/ FaultyMoveItem
    \/ FaultyDeleteItem
    \/ FaultyUploadFiles
    \/ Return

SpecFault == InitRace /\ [][NextFault]_vars

\* ----------------------------------------------------------- properties

\* A path is inside the shared folder: the folder itself or below it.
InSandbox(p) == p = SHARE_FOLDER \/ startswith(p, SHARE_FOLDER \o <<SLASH>>)

\* The entries of the disk that are not inside the shared folder.
outside(f) == [q \in {x \in DOMAIN f : ~InSandbox(x)} |-> f[q]]

\* C1: every path the resolver returns is the shared folder or lies below
\* it (shared folder + separator is a strict prefix), whatever the request
\* path, and no request changes an entry outside the shared folder.
C1_Confined ==
    [][/\ last'.target # None => InSandbox(last'.target)
       /\ outside(fs') = outside(fs)]_vars

\* Where a request path leads: the components of the shared folder followed
\* by those of the path, "" and "." skipped, ".." dropping the last one.
RECURSIVE walk(_, _)
walk(stack, segs) ==
    IF segs = <<>> THEN stack
    ELSE IF Head(segs) \in {<<>>, DOT} THEN walk(stack, Tail(segs))
    ELSE IF Head(segs) = DOTDOT
    THEN walk(SubSeq(stack, 1, Len(stack) - 1), Tail(segs))
    ELSE walk(Append(stack, Head(segs)), Tail(segs))

\* The request path leads to a place whose text does not begin with the
\* text of the shared folder.
Escapes(p) ==
    LET root == nonempty(split(SHARE_FOLDER))
        n == Len(root)
        at == walk(root, split(p))
    IN  ~ /\ Len(at) >= n
          /\ SubSeq(at, 1, n - 1) = SubSeq(root, 1, n - 1)
          /\ startswith(at[n], root[n])

HasDotDot(p) == \E i \in 1..Len(split(p)) : split(p)[i] = DOTDOT
HasAbsolutePrefix(p) == p # <<>> /\ Head(p) = SLASH

InvalidPath(r) ==
    r.status = 403 /\ r.error \in {"Invalid path", "Invalid source path"}

SelfNest(f, subpath, dest) ==
    LET source_path == get_safe_path(subpath)
        dest_path == get_safe_path(dest)
    IN  /\ source_path # None
        /\ dest_path # None
        /\ InSandbox(source_path) /\ source_path # SHARE_FOLDER
        /\ isdir(f, source_path)
        /\ isdir(f, dest_path)
        /\ (dest_path = source_path \/ startswith(dest_path, source_path \o <<SLASH>>))

Occupied(f, subpath, dest) ==
    exists(f, path_join(get_safe_path(dest), basename(get_safe_path(subpath))))

\* C4 as stated: moving a directory into itself always fails with
\* InvalidOperation (400), changes nothing and publishes nothing.
C4_SelfNestInvalidOperation ==
    [][(last'.op = "move" /\ SelfNest(fs, last'.subpath, last'.arg))
         => /\ last'.status = 400
            /\ last'.error = "Cannot move a folder into itself"
            /\ fs' = fs
            /\ last'.events = <<>>]_vars

\* C4 amended: moving a directory into itself always fails, changes nothing
\* and publishes nothing; it fails with Conflict (409) when the destination
\* already holds an entry named like the source, and with InvalidOperation
\* (400) otherwise.
C4_SelfNestRejected ==
    [][(last'.op = "move" /\ SelfNest(fs, last'.subpath, last'.arg))
         => /\ fs' = fs
            /\ last'.events = <<>>
            /\ IF Occupied(fs, last'.subpath, last'.arg)
               THEN last'.status = 409
               ELSE /\ last'.status = 400
                    /\ last'.error = "Cannot move a folder into itself"]_vars

\* C4's case: a directory was moved into its own subdirectory and the move
\* was refused as InvalidOperation (the disk is as before the request).
C4_Witness ==
    /\ last.op = "move"
    /\ SelfNest(fs, last.subpath, last.arg)
    /\ get_safe_path(last.arg) # get_safe_path(last.subpath)
    /\ last.status = 400
    /\ last.error = "Cannot move a folder into itself"


\* The depth of an entry: the number of path segments below the shared folder.
depth_below_root(p) == Len(nonempty(split(p))) - Len(nonempty(split(SHARE_FOLDER)))

\* C3's case: the request names a valid folder name and a spelling of an
\* existing directory of the shared folder that has no entry of that name.
CreatableAt(f, subpath, name) ==
    /\ get_safe_path(subpath) # None
    /\ InSandbox(get_safe_path(subpath))
    /\ isdir(f, get_safe_path(subpath))
    /\ name # None
    /\ secure_filename(name) # <<>>
    /\ ~exists(f, path_join(get_safe_path(subpath), secure_filename(name)))

\* C3: create_folder on an existing parent directory, with a valid name that
\* is free, fails with DepthExceeded (400) when the new folder would lie
\* deeper than MAX_FOLDER_DEPTH and succeeds, creating the folder, when it
\* would lie at MAX_FOLDER_DEPTH or above, however the parent is spelled.
C3_DepthOfResolvedFolder ==
    [][(last'.op = "create_folder" /\ CreatableAt(fs, last'.subpath, last'.arg))
         => LET new_folder == path_join(get_safe_path(last'.subpath),
                                        secure_filename(last'.arg))
            IN  IF depth_below_root(new_folder) > MAX_FOLDER_DEPTH
                THEN /\ last'.status = 400
                     /\ last'.error = "Maximum folder depth exceeded"
                     /\ fs' = fs
                ELSE /\ last'.status = 200
                     /\ isdir(fs', new_folder)]_vars


\* C9: when a concurrent delete has removed the parent directory between
\* create_folder's checks and its os.makedirs, create_folder answers NotFound
\* (404) and leaves the disk as it is: the parent is not created again.
C9_VanishedParentNotFound ==
    [][\A t \in Threads :
         (/\ req[t].pc = "checked" /\ req'[t].pc = "done"
          /\ req[t].op = "create_folder"
          /\ ~exists(fs, req[t].plan.target)
          /\ \E u \in Threads \ {t} :
                req[u].op = "delete" /\ req[u].pc = "done" /\ req[u].status = 200)
         => (req'[t].status = 404 /\ fs' = fs)]_vars

\* C10: when two requests of the same kind (create_folder, rename, move) for
\* the same new path have both passed their checks before either was carried
\* out, one is answered 200 and the other Conflict (409), and the one refused
\* still has its source entry where it was.
C10_OneWinsOtherConflicts ==
    \A t, u \in Threads :
        (/\ t # u
         /\ req[t].pc = "done" /\ req[t].raced
         /\ req[u].pc = "done" /\ req[u].raced)
        => /\ {req[t].status, req[u].status} = {200, 409}
           /\ (req[t].status = 409 /\ req[t].op # "create_folder")
                 => exists(fs, req[t].plan.src)


\* The step by which worker w leaves broadcast_change, returning or raising.
Leaves(w) == workers[w].pc = "remove" /\ workers'[w].pc = "idle"

\* C5: when a call of broadcast_change is over, every queue it found full
\* is out of client_queues, and every queue that was in the list with room
\* for the whole of the call has been given the message.
C5_FullRemovedOthersServed ==
    [][\A w \in Publishers :
         Leaves(w) =>
            /\ \A q \in in_list(workers[w].dead) : ~contains(client_queues', q)
            /\ workers[w].present \subseteq in_list(workers[w].got)]_vars

\* C6: under every interleaving of the list steps of streams connecting,
\* streams disconnecting and broadcast_change, no call of broadcast_change
\* and no finally clause raises, and a call gives its message exactly once
\* to every queue that was in the list with room for the whole of the call.
C6_SafeUnderConcurrency ==
    [][/\ \A w \in Publishers : workers'[w].err = ""
       /\ \A s \in Streams : streams'[s].err = ""
       /\ \A w \in Publishers :
             Leaves(w) =>
                /\ \A q \in workers[w].present :
                      Cardinality({k \in 1..Len(workers[w].got) : workers[w].got[k] = q}) = 1
                /\ \A h, k \in 1..Len(workers[w].got) :
                      workers[w].got[h] = workers[w].got[k] => h = k]_vars

\* C7: client_queues holds only queues of streams that have appended theirs
\* and have not yet left their finally clause: a stream that is over, however
\* it ended, has no queue in the list.
C7_NoQueueLeaked ==
    \A s \in Streams :
        contains(client_queues, s) => streams[s].pc \in {"open", "finally", "remove"}

\* C7's case: a stream that had its queue in the list and was sent to has
\* ended without an error, its queue is out of the list, and another stream's
\* queue is still in it.
C7_Witness ==
    \E s \in Streams :
        /\ streams[s].pc = "done"
        /\ streams[s].err = ""
        /\ queues[s] # <<>>
        /\ ~contains(client_queues, s)
        /\ \E o \in Streams \ {s} : contains(client_queues, o)

\* C8: a stream sends each message as broadcast_change was given it and at
\* most once, and of two messages it sends, one whose call had returned before
\* the other's call was entered is sent first.
C8_PublishOrder ==
    \A s \in Streams :
        \A h, k \in 1..Len(streams[s].sent) :
            LET first == streams[s].sent[h]
                second == streams[s].sent[k]
            IN  /\ first.n \in 1..Len(calls)
                /\ first.path = calls[first.n].path
                /\ h < k => /\ first.n # second.n
                            /\ first.n \notin {n \in 1..Len(calls) : second.n \in calls[n].before}

\* C8's case: a stream has sent two messages, the first from a call that
\* had returned before the call of the second was entered.
C8_Witness ==
    \E s \in Streams :
        /\ Len(streams[s].sent) >= 2
        /\ streams[s].sent[1].n \in calls[streams[s].sent[2].n].before


\* An upload that got as far as its loop: the target is a directory and
\* the batch is not empty.
UploadRan(f, r) ==
    /\ r.op = "upload"
    /\ get_safe_path(r.subpath) # None
    /\ isdir(f, get_safe_path(r.subpath))
    /\ r.arg # <<>>

\* The path a file of a batch is written to, and whether writing it fails:
\* the write raises, the size comes out short, or the name is a directory's.
upload_path(r, file) == path_join(get_safe_path(r.subpath), secure_filename(file.filename))
upload_fails(f, r, file) == file.fault # "none" \/ isdir(f, upload_path(r, file))

RECURSIVE names_where(_, _, _, _)
names_where(f, r, files, failed) ==
    IF files = <<>> THEN <<>>
    ELSE IF upload_fails(f, r, Head(files)) = failed
    THEN <<secure_filename(Head(files).filename)>> \o names_where(f, r, Tail(files), failed)
    ELSE names_where(f, r, Tail(files), failed)

\* C11: in an upload, a file that fails (its write raises, its size comes
\* out short, or its name is an existing directory's) is recorded as a
\* per-file error and leaves no data behind, the batch goes on, and the files
\* written before and after it are reported as uploaded.
C11_FailureKeepsBatch ==
    [][UploadRan(fs, last') =>
         /\ last'.error = ""
         /\ last'.uploaded = names_where(fs, last', last'.arg, FALSE)
         /\ last'.errors = names_where(fs, last', last'.arg, TRUE)
         /\ \A i \in 1..Len(last'.arg) :
               (/\ last'.arg[i].fault # "none"
                /\ \A k \in (i + 1)..Len(last'.arg) :
                      last'.arg[k].filename # last'.arg[i].filename)
               => ~isfile(fs', upload_path(last', last'.arg[i]))]_vars


\* Some file of the batch was reached by the loop and written whole.
SomeWritten(f, r) ==
    \E i \in 1..Len(r.arg) :
        /\ ~upload_fails(f, r, r.arg[i])
        /\ \A k \in 1..(i - 1) : ~isdir(f, upload_path(r, r.arg[k]))

\* C12: an upload publishes one file_change event for its target directory
\* when at least one file of the batch was written, however many failed, and
\* none when no file was written.
C12_OneEventPerBatch ==
    [][UploadRan(fs, last') =>
         last'.events = IF SomeWritten(fs, last') THEN <<last'.subpath>> ELSE <<>>]_vars


\* The JSON body of an upload's response: the result of lines 247-251, or no
\* result at all when the handler of line 259 answered.
upload_response(r) ==
    IF r.error # "" THEN [success |-> FALSE, uploaded |-> <<>>, count |-> 0, errors |-> <<>>,
                          status |-> r.status]
    ELSE upload_result(r.uploaded, r.errors)

\* C13: the result of an upload says success exactly when no file of the
\* batch failed; when every file failed the request answers 500; when some
\* were written and some failed it answers 200 with success false, the names
\* of the files written, their number and the errors.
C13_AggregateResult ==
    [][UploadRan(fs, last') =>
         LET ok == names_where(fs, last', last'.arg, FALSE)
             bad == names_where(fs, last', last'.arg, TRUE)
             body == upload_response(last')
         IN  /\ body.status = last'.status
             /\ body.success <=> bad = <<>>
             /\ (bad # <<>> /\ ok = <<>>) => last'.status = 500
             /\ (bad # <<>> /\ ok # <<>>) =>
                   /\ last'.status = 200
                   /\ body.uploaded = ok
                   /\ body.count = Len(ok)
                   /\ body.errors = bad]_vars


\* C14: a rename, move or delete whose path resolves to the shared folder
\* itself, however it is spelled, is answered Forbidden (403) and changes
\* nothing, and after every request the shared folder is still a directory
\* at its place.
C14_RootKept ==
    [][/\ (/\ last'.op \in {"rename", "move", "delete"}
           /\ get_safe_path(last'.subpath) = SHARE_FOLDER)
          => /\ last'.status = 403
             /\ last'.error \in {"Cannot rename root folder", "Cannot move root folder",
                                  "Cannot delete root folder"}
             /\ fs' = fs
             /\ last'.events = <<>>
       /\ isdir(fs', SHARE_FOLDER)]_vars

\* C14's case: a delete of the shared folder spelled "." was refused while
\* the folder had entries in it.
C14_Witness ==
    /\ last.op = "delete"
    /\ last.subpath = DOT
    /\ last.status = 403
    /\ last.error = "Cannot delete root folder"
    /\ inside(fs) # {}


\* C15: a mutation whose filesystem call fails with PermissionError answers
\* PermissionDenied (403); one whose call fails with another error answers 500
\* with the error's message; in both cases nothing is published, and a file
\* of an upload that open() refuses is listed among the errors.
C15_FailuresReported ==
    [][/\ (last'.op # "" /\ last'.fault = "PermissionError")
            => (last'.status = 403 /\ last'.events = <<>>)
       /\ (last'.op # "" /\ last'.fault = "OSError")
            => (last'.status = 500 /\ last'.error = "OSError" /\ last'.events = <<>>)
       /\ (UploadRan(fs, last') /\ last'.error = "")
            => \A i \in 1..Len(last'.arg) :
                  last'.arg[i].fault = "denied" =>
                     \E k \in 1..Len(last'.errors) :
                        last'.errors[k] = secure_filename(last'.arg[i].filename)]_vars


\* A directory named the one way rename_item names it: its path relative to
\* the shared folder, "" for the shared folder itself.
canonical(dir) == parent_rel_path(dir)

\* C16: a successful create_folder, rename or delete publishes one event
\* naming the parent directory of the entry, a successful move two, the
\* source's parent first and the destination second; every directory is named
\* by its relative path ("" for the shared folder) however the request
\* spelled it.
C16_EventsNameParent ==
    [][(/\ last'.status = 200
        /\ last'.op \in {"create_folder", "rename", "delete", "move"}
        /\ InSandbox(get_safe_path(last'.subpath)))
         => LET target == get_safe_path(last'.subpath)
            IN  CASE last'.op = "create_folder" -> last'.events = <<canonical(target)>>
                  [] last'.op = "move" ->
                       InSandbox(get_safe_path(last'.arg)) =>
                          last'.events = <<canonical(dirname(target)),
                                           canonical(get_safe_path(last'.arg))>>
                  [] OTHER -> last'.events = <<canonical(dirname(target))>>]_vars


\* C17: whatever requests were served, no directory of the shared folder lies
\* deeper than MAX_FOLDER_DEPTH below it.
C17_DepthBound ==
    \A p \in DOMAIN fs :
        (InSandbox(p) /\ isdir(fs, p)) => depth_below_root(p) <= MAX_FOLDER_DEPTH


\* C18's case: the request moves an existing directory of the shared folder
\* (not the shared folder itself) into an existing directory of the shared
\* folder that is neither the source nor nested inside it, that holds no entry
\* named like the source, and where the source lands within the depth limit.
MovableInto(f, subpath, dest) ==
    LET source_path == get_safe_path(subpath)
        dest_path == get_safe_path(dest)
    IN  /\ source_path # None
        /\ dest # None
        /\ dest_path # None
        /\ InSandbox(source_path) /\ source_path # SHARE_FOLDER
        /\ InSandbox(dest_path)
        /\ isdir(f, source_path)
        /\ isdir(f, dest_path)
        /\ ~SelfNest(f, subpath, dest)
        /\ ~Occupied(f, subpath, dest)
        /\ \A p \in DOMAIN f :
              (isdir(f, p) /\ (p = source_path \/ startswith(p, source_path \o <<SLASH>>)))
                 => depth_below_root(dest_path) + 1
                      + depth_below_root(p) - depth_below_root(source_path)
                    <= MAX_FOLDER_DEPTH

\* C18: a move of a directory into a directory that is neither the source
\* nor nested inside it, with no name conflict and within the depth limit,
\* succeeds and puts the source under the destination, also when the
\* destination's name merely starts with the source's name.
C18_SiblingMoveSucceeds ==
    [][(last'.op = "move" /\ MovableInto(fs, last'.subpath, last'.arg))
         => LET source_path == get_safe_path(last'.subpath)
                new_path == path_join(get_safe_path(last'.arg), basename(source_path))
            IN  /\ last'.status = 200
                /\ isdir(fs', new_path)
                /\ ~exists(fs', source_path)]_vars


\* C19: a request answered with a failure status (400, 403, 404, 409, 500)
\* leaves every entry of the disk and its contents as before the request and
\* publishes no event.
C19_FailureChangesNothing ==
    [][(last'.op # "" /\ last'.status >= 400)
         => /\ fs' = fs
            /\ last'.events = <<>>]_vars


\* Message number n waits in the queue of stream s / has been sent by it.
Queued(s, n) == \E k \in 1..Len(queues[s]) : queues[s][k].n = n
Forwarded(s, n) == \E k \in 1..Len(streams[s].sent) : streams[s].sent[k].n = n

\* C20: with the stream's loop scheduled fairly, a message put into a
\* stream's queue is sent to the client unless the client disconnects, whether
\* or not the queue is still in client_queues; a stream waiting on an empty
\* queue sends a keep-alive unless a message comes or the client disconnects;
\* and sending the keep-alive leaves the stream open.
C20_EventuallyForwarded ==
    /\ \A s \in LiveStreams : \A n \in 1..MaxCalls :
          (streams[s].pc = "open" /\ Queued(s, n))
             ~> (Forwarded(s, n) \/ streams[s].pc # "open")
    /\ \A s \in LiveStreams :
          (streams[s].pc = "open" /\ queues[s] = <<>>)
             ~> (streams[s].idle \/ queues[s] # <<>> \/ streams[s].pc # "open")
    /\ [][\A s \in LiveStreams :
             (streams[s].pc = "open" /\ ~streams[s].idle /\ streams'[s].idle)
                => streams'[s].pc = "open"]_vars

\* C20's case: a stream whose queue was taken out of client_queues because
\* it was full is still open and has sent every message of its queue, a
\* numbered one among them; the last thing it sent is a keep-alive.
C20_Witness ==
    \E s \in LiveStreams :
        /\ streams[s].pc = "open"
        /\ ~contains(client_queues, s)
        /\ queues[s] = <<>>
        /\ streams[s].sent # <<>>
        /\ streams[s].idle

====
